---- MODULE Spec2Model ----
(***************************************************************************)
(* MapView (src/source/MapView.ts): the orchestrator that owns the root    *)
(* MapNode, the colour and height providers and the LOD control.           *)
(*                                                                         *)
(* JavaScript values are records [tag, v]: tag is the runtime class of the *)
(* value, v tells instances of one class apart.  Scene-graph objects are   *)
(* numbered: 0 is the view itself, 1..MaxNodes are MapNode instances, -1   *)
(* is null.                                                                *)
(***************************************************************************)
EXTENDS Integers, Sequences, FiniteSets, TLC

VARIABLES phase, lod, provider, heightProvider, root, geometry, scale,
          parent, children, childrenCache, mapView, parentNode, nodeClass,
          tile, created, lastCall

vars == <<phase, lod, provider, heightProvider, root, geometry, scale,
          parent, children, childrenCache, mapView, parentNode, nodeClass,
          tile, created, lastCall>>

-----------------------------------------------------------------------------
(* Bounds of the model. *)

\* MapNode instances the application constructs itself and may hand to setRoot.
NumUserNodes == 1
\* Further MapNode instances that subdivision may create.
NumTreeNodes == 4
\* Provider instances the application owns besides the default one.
NumProviders == 1
\* Cameras a frame may be rendered with.
NumCameras == 1
\* Nodes of the tree, lowest ids first, that the application may also hand to
\* setRoot.
NumAdoptable == 1

-----------------------------------------------------------------------------
(* Program constants. *)

PLANAR == 200
SPHERICAL == 201
HEIGHT == 202
HEIGHT_SHADER == 203
\* A number that is no key of mapModes.
UNREGISTERED == 204

\* MapView.mapModes: mode id -> node class.
mapModes ==
    (PLANAR :> "MapPlaneNode") @@ (SPHERICAL :> "MapSphereNode") @@
    (HEIGHT :> "MapHeightNode") @@ (HEIGHT_SHADER :> "MapHeightNodeShader")

NodeClasses == {mapModes[m] : m \in DOMAIN mapModes}

\* Number of children of a quadtree node.
QuadChildren == 4

-----------------------------------------------------------------------------
(* JavaScript values. *)

View == 0
Null == -1
MaxNodes == NumUserNodes + NumTreeNodes
NodeIds == 1..MaxNodes
UserNodes == 1..NumUserNodes

NullV == [tag |-> "null", v |-> 0]
UndefV == [tag |-> "undefined", v |-> 0]
NumV(k) == [tag |-> "number", v |-> k]
\* A Number wrapper object, as `new Number(x)` makes.
BoxedNumV(k) == [tag |-> "Number", v |-> k]
NodeV(n) == [tag |-> "MapNode", v |-> n]
ViewV == [tag |-> "MapView", v |-> View]
ProviderV(i) == [tag |-> "MapProvider", v |-> i]
OSMProviderV == [tag |-> "OpenStreetMapsProvider", v |-> 0]
LODRaycastV == [tag |-> "LODRaycast", v |-> 0]
CameraV(i) == [tag |-> "Camera", v |-> i]
RendererV == [tag |-> "WebGLRenderer", v |-> 0]
SceneV == [tag |-> "Scene", v |-> 0]
GeometryV(c) == [tag |-> c, v |-> 0]
ScaleV(c) == [tag |-> c, v |-> 1]
\* What the Mesh constructor leaves in geometry and scale.
DefaultGeometry == GeometryV("BufferGeometry")
DefaultScale == ScaleV("Vector3")

IsNode(x) == x.tag = "MapNode"
IsProvider(x) == x.tag \in {"MapProvider", "OpenStreetMapsProvider"}

Providers == {ProviderV(i) : i \in 1..NumProviders}
Cameras == {CameraV(i) : i \in 1..NumCameras}

\* The class of a node the application constructs: one of the four variants.
UserNodeClass(n) ==
    CASE n % 4 = 1 -> "MapPlaneNode"
      [] n % 4 = 2 -> "MapSphereNode"
      [] n % 4 = 3 -> "MapHeightNode"
      [] OTHER -> "MapHeightNodeShader"

\* x.constructor.BASE_GEOMETRY: a static of the node classes, undefined on Number.
BASE_GEOMETRY(x) ==
    IF IsNode(x) THEN GeometryV(nodeClass[x.v]) ELSE UndefV

\* x.constructor.BASE_SCALE: a static of the node classes, undefined on Number.
BASE_SCALE(x) ==
    IF IsNode(x) THEN ScaleV(nodeClass[x.v]) ELSE UndefV

-----------------------------------------------------------------------------
(* Sequences. *)

Range(s) == {s[i] : i \in DOMAIN s}

\* Array.prototype.indexOf: the first index holding x, 0 when there is none.
IndexOf(s, x) ==
    IF x \in Range(s) THEN CHOOSE i \in DOMAIN s : s[i] = x /\ \A j \in 1..(i - 1) : s[j] # x
    ELSE 0

\* Array.prototype.splice(i, 1).
Splice(s, i) == SubSeq(s, 1, i - 1) \o SubSeq(s, i + 1, Len(s))

-----------------------------------------------------------------------------
(* The scene graph: g = [parent, children], as Object3D keeps it. *)

\* Object3D.remove(object) on the object numbered p.
Remove(g, p, o) ==
    IF IsNode(o) /\ IndexOf(g.children[p], o.v) # 0
    THEN [parent |-> [g.parent EXCEPT ![o.v] = Null],
          children |-> [g.children EXCEPT ![p] = Splice(@, IndexOf(@, o.v))]]
    ELSE g

\* Object3D.add(object) on the object numbered p: the object leaves its
\* current parent first.
Add(g, p, o) ==
    IF ~IsNode(o) THEN g
    ELSE LET g1 == IF g.parent[o.v] # Null THEN Remove(g, g.parent[o.v], o) ELSE g
         IN [parent |-> [g1.parent EXCEPT ![o.v] = p],
             children |-> [g1.children EXCEPT ![p] = Append(@, o.v)]]

\* Mutant of Traverse: the object and its direct children only.
TraverseShallow(ch, p) == <<p>> \o ch[p]

\* Object3D.traverse: the object, then each child's traversal, in order.
RECURSIVE Traverse(_, _)
Traverse(ch, p) ==
    LET F[i \in 0..Len(ch[p])] ==
            IF i = 0 THEN <<>> ELSE F[i - 1] \o Traverse(ch, ch[p][i])
    IN <<p>> \o F[Len(ch[p])]

-----------------------------------------------------------------------------
(* MapNode: the part of the node class that MapView relies on. *)

\* MapNode.ROOT, the location of a node that is no quadrant of a parent.
ROOT == -1

\* The location and tile coordinate a node is constructed with.
Tile(location, level, x, y) == [location |-> location, level |-> level, x |-> x, y |-> y]

\* The tile of a tree root: MapNode.ROOT at (level 0, x 0, y 0).
RootTile == Tile(ROOT, 0, 0, 0)

\* The tile of the i-th child (i in 1..4) of a node with tile c.
ChildTile(c, i) ==
    Tile(i - 1, c.level + 1, 2 * c.x + ((i - 1) % 2), 2 * c.y + ((i - 1) \div 2))

NullCache == [isNull |-> TRUE, nodes |-> <<>>]
CacheOf(s) == [isNull |-> FALSE, nodes |-> s]

\* node.loadTexture(): the node requests its tile from the colour provider of
\* the view it is bound to.  The request is recorded as <<node, provider>>.
LoadTexture(n, mv, prov) == <<n, IF mv[n] = View THEN prov ELSE UndefV>>

\* The nodes a subdivision of some node would construct: the lowest free ids.
RECURSIVE Lowest(_, _)
Lowest(S, k) ==
    IF k = 0 \/ S = {} THEN <<>>
    ELSE LET m == CHOOSE x \in S : \A y \in S : x <= y
         IN <<m>> \o Lowest(S \ {m}, k - 1)

\* t = [parent, children, childrenCache, mapView, parentNode, nodeClass,
\*      tile, created, loads]: the nodes and the content requests issued so far.

CanSubdivide(t, n) ==
    /\ Len(t.children[n]) = 0
    /\ \/ ~t.childrenCache[n].isNull
       \/ Cardinality(NodeIds \ t.created) >= QuadChildren

\* node.subdivide(): the cached children come back, or four children are
\* constructed, each bound to the node's view and requesting its tile.
Subdivide(t, n, prov) ==
    IF ~t.childrenCache[n].isNull
    THEN [t EXCEPT !.children[n] = t.childrenCache[n].nodes]
    ELSE LET kids == Lowest(NodeIds \ t.created, QuadChildren)
             K == Range(kids)
             mv == [x \in NodeIds |-> IF x \in K THEN t.mapView[n] ELSE t.mapView[x]]
         IN [t EXCEPT
               !.parent = [x \in NodeIds |-> IF x \in K THEN n ELSE t.parent[x]],
               !.children[n] = kids,
               !.mapView = mv,
               !.parentNode = [x \in NodeIds |-> IF x \in K THEN n ELSE t.parentNode[x]],
               !.nodeClass = [x \in NodeIds |-> IF x \in K THEN t.nodeClass[n] ELSE t.nodeClass[x]],
               !.tile = [x \in NodeIds |->
                           IF x \in K THEN ChildTile(t.tile[n], IndexOf(kids, x))
                           ELSE t.tile[x]],
               !.created = t.created \cup K,
               !.loads = t.loads \o [i \in 1..Len(kids) |-> LoadTexture(kids[i], mv, prov)]]

\* node.simplify(): the children leave the tree and are kept in childrenCache,
\* the field that clear() resets (MapView.ts:176-180); their parent fields are
\* not touched.
Simplify(t, n) ==
    IF Len(t.children[n]) > 0
    THEN [t EXCEPT !.childrenCache[n] = CacheOf(t.children[n]), !.children[n] = <<>>]
    ELSE t

-----------------------------------------------------------------------------
(* MapView. *)

\* `new root.constructor(null, null, null, this, MapNode.ROOT, 0, 0, 0)` with
\* root a number: root.constructor is Number, and new Number(null) wraps 0.
\* The class looked up in mapModes (rootConstructor) is not used.
NewRoot(r, rootConstructor) == BoxedNumV(0)

\* Mutant of SetRootBody: the registry is consulted only after the prior root
\* has been detached.
SetRootBodyLateCheck(s, r) ==
    LET g0 == [parent |-> s.parent, children |-> s.children]
        g1 == IF s.root # NullV THEN Remove(g0, View, s.root) ELSE g0
        s1 == [s EXCEPT !.root = NullV, !.parent = g1.parent, !.children = g1.children]
    IN  IF r.tag = "number"
        THEN [s1 EXCEPT !.threw = IF r.v \in DOMAIN mapModes THEN "TypeError" ELSE "Error"]
        ELSE LET g2 == Add(g1, View, r)
             IN [s1 EXCEPT !.root = r, !.geometry = BASE_GEOMETRY(r),
                           !.scale = BASE_SCALE(r), !.mapView[r.v] = View,
                           !.parent = g2.parent, !.children = g2.children]

\* Mutant of SetRootBody: the prior root is not removed from the view.
SetRootBodyKeepsPrior(s, r) ==
    IF r.tag = "number"
    THEN [s EXCEPT !.threw = IF r.v \in DOMAIN mapModes THEN "TypeError" ELSE "Error"]
    ELSE LET g2 == Add([parent |-> s.parent, children |-> s.children], View, r)
         IN [s EXCEPT !.root = r, !.geometry = BASE_GEOMETRY(r),
                      !.scale = BASE_SCALE(r), !.mapView[r.v] = View,
                      !.parent = g2.parent, !.children = g2.children]

\* The body of setRoot on s = [root, geometry, scale, parent, children,
\* mapView, threw]; threw names the error the call raises, "none" if none.
SetRootBody(s, r) ==
    IF r.tag = "number" /\ r.v \notin DOMAIN mapModes
    THEN [s EXCEPT !.threw = "Error"]
    ELSE
    LET r1 == IF r.tag = "number" THEN NewRoot(r, mapModes[r.v]) ELSE r
        g0 == [parent |-> s.parent, children |-> s.children]
        g1 == IF s.root # NullV THEN Remove(g0, View, s.root) ELSE g0
        s1 == [s EXCEPT !.root = r1, !.parent = g1.parent, !.children = g1.children]
    IN  IF r1.tag \in {"undefined", "null"}
        THEN [s1 EXCEPT !.threw = "TypeError"]
        ELSE
        LET s2 == [s1 EXCEPT !.geometry = BASE_GEOMETRY(r1)]
        IN  IF BASE_SCALE(r1) = UndefV
            THEN [s2 EXCEPT !.threw = "TypeError"]
            ELSE
            LET g2 == Add(g1, View, r1)
            IN [s2 EXCEPT !.scale = BASE_SCALE(r1),
                          !.mapView[r1.v] = View,
                          !.parent = g2.parent,
                          !.children = g2.children]

ViewState ==
    [root |-> root, geometry |-> geometry, scale |-> scale, parent |-> parent,
     children |-> children, mapView |-> mapView, threw |-> "none"]

\* The record of the last call on the view: its arguments, the error it raised,
\* the value it returned, the loadTexture calls and updateLOD calls it issued,
\* the nodes whose childrenCache it set to null and the error that its
\* updateLOD call raised.
Call(op, args, threw, ret, loads, lods, dropped) ==
    [op |-> op, args |-> args, threw |-> threw, ret |-> ret, loads |-> loads,
     lod |-> lods, dropped |-> dropped, lodThrew |-> "none"]

Init ==
    /\ phase = "new"
    /\ lod = UndefV
    /\ provider = UndefV
    /\ heightProvider = UndefV
    /\ root = UndefV
    /\ geometry = UndefV
    /\ scale = UndefV
    /\ parent = [n \in NodeIds |-> Null]
    /\ children = [n \in {View} \cup NodeIds |-> <<>>]
    /\ childrenCache = [n \in NodeIds |-> NullCache]
    /\ mapView = [n \in NodeIds |-> Null]
    /\ parentNode = [n \in NodeIds |-> Null]
    /\ nodeClass = [n \in NodeIds |-> IF n \in UserNodes THEN UserNodeClass(n) ELSE "none"]
    /\ tile = [n \in NodeIds |-> RootTile]
    /\ created = UserNodes
    /\ lastCall = Call("none", <<>>, "none", UndefV, <<>>, <<>>, {})

\* The values a caller may pass as root: a number or a MapNode instance.
RootArgs ==
    {NumV(m) : m \in DOMAIN mapModes \cup {UNREGISTERED}} \cup {NodeV(n) : n \in created \cap (1..(NumUserNodes + NumAdoptable))}

\* Mutant of Construct: the provider arguments are stored as given, without
\* the defaults.
ConstructNoDefaults(r, p, h) ==
    /\ phase = "new"
    /\ LET s0 == [root |-> IF r # UndefV THEN r ELSE NumV(PLANAR),
                  geometry |-> DefaultGeometry, scale |-> DefaultScale,
                  parent |-> parent, children |-> children, mapView |-> mapView,
                  threw |-> "none"]
           s == SetRootBody(s0, r)
       IN /\ lod' = LODRaycastV
          /\ provider' = p
          /\ heightProvider' = h
          /\ root' = s.root
          /\ geometry' = s.geometry
          /\ scale' = s.scale
          /\ parent' = s.parent
          /\ children' = s.children
          /\ mapView' = s.mapView
          /\ phase' = IF s.threw = "none" THEN "live" ELSE "failed"
          /\ lastCall' = Call("constructor", <<r, p, h>>, s.threw,
                              IF s.threw = "none" THEN ViewV ELSE UndefV, <<>>, <<>>, {})
    /\ UNCHANGED <<childrenCache, parentNode, nodeClass, tile, created>>

\* new MapView(root, provider, heightProvider); undefined is an omitted argument.
Construct(r, p, h) ==
    /\ phase = "new"
    /\ LET prov == IF p # UndefV THEN p ELSE OSMProviderV
           hprov == IF h # UndefV THEN h ELSE NullV
           s0 == [root |-> IF r # UndefV THEN r ELSE NumV(PLANAR),
                  geometry |-> DefaultGeometry, scale |-> DefaultScale,
                  parent |-> parent, children |-> children, mapView |-> mapView,
                  threw |-> "none"]
           s == SetRootBody(s0, r)
       IN /\ lod' = LODRaycastV
          /\ provider' = prov
          /\ heightProvider' = hprov
          /\ root' = s.root
          /\ geometry' = s.geometry
          /\ scale' = s.scale
          /\ parent' = s.parent
          /\ children' = s.children
          /\ mapView' = s.mapView
          /\ phase' = IF s.threw = "none" THEN "live" ELSE "failed"
          /\ lastCall' = Call("constructor", <<r, p, h>>, s.threw,
                              IF s.threw = "none" THEN ViewV ELSE UndefV, <<>>, <<>>, {})
    /\ UNCHANGED <<childrenCache, parentNode, nodeClass, tile, created>>

\* view.setRoot(r)
SetRoot(r) ==
    /\ phase = "live"
    /\ LET s == SetRootBody(ViewState, r)
       IN /\ root' = s.root
          /\ geometry' = s.geometry
          /\ scale' = s.scale
          /\ parent' = s.parent
          /\ children' = s.children
          /\ mapView' = s.mapView
          /\ lastCall' = Call("setRoot", <<r>>, s.threw, UndefV, <<>>, <<>>, {})
    /\ UNCHANGED <<phase, lod, provider, heightProvider, childrenCache, parentNode,
                   nodeClass, tile, created>>

\* One visit of the callback clear() passes to traverse, on the object o:
\* c = [cache, loads, dropped].  The view itself has neither childrenCache nor loadTexture.
ClearVisit(c, o, mv, prov) ==
    LET cache1 == IF o \in NodeIds /\ ~c.cache[o].isNull
                  THEN [c.cache EXCEPT ![o] = NullCache]
                  ELSE c.cache
        loads1 == IF o \in NodeIds
                  THEN Append(c.loads, LoadTexture(o, mv, prov))
                  ELSE c.loads
    IN [cache |-> cache1, loads |-> loads1,
        dropped |-> IF cache1 # c.cache THEN c.dropped \cup {o} ELSE c.dropped]

\* The body of clear(): the callback on every object of this.traverse, in order.
ClearBody(ch, cache, mv, prov) ==
    LET order == Traverse(ch, View)
        F[i \in 0..Len(order)] ==
            IF i = 0 THEN [cache |-> cache, loads |-> <<>>, dropped |-> {}]
            ELSE ClearVisit(F[i - 1], order[i], mv, prov)
    IN F[Len(order)]

\* Mutant of SetProvider: clear() runs before the provider field is assigned.
SetProviderClearFirst(p) ==
    /\ phase = "live"
    /\ IF p # provider
       THEN LET c == ClearBody(children, childrenCache, mapView, provider)
            IN /\ provider' = p
               /\ childrenCache' = c.cache
               /\ lastCall' = Call("setProvider", <<p>>, "none", UndefV, c.loads, <<>>, c.dropped)
       ELSE /\ UNCHANGED <<provider, childrenCache>>
            /\ lastCall' = Call("setProvider", <<p>>, "none", UndefV, <<>>, <<>>, {})
    /\ UNCHANGED <<phase, lod, heightProvider, root, geometry, scale, parent, children,
                   mapView, parentNode, nodeClass, tile, created>>

\* Mutant of SetProvider: the provider field is assigned and clear() is not called.
SetProviderNoClear(p) ==
    /\ phase = "live"
    /\ provider' = p
    /\ lastCall' = Call("setProvider", <<p>>, "none", UndefV, <<>>, <<>>, {})
    /\ UNCHANGED <<phase, lod, heightProvider, root, geometry, scale, parent, children,
                   childrenCache, mapView, parentNode, nodeClass, tile, created>>

\* view.setProvider(p)
SetProvider(p) ==
    /\ phase = "live"
    /\ IF p # provider
       THEN LET c == ClearBody(children, childrenCache, mapView, p)
            IN /\ provider' = p
               /\ childrenCache' = c.cache
               /\ lastCall' = Call("setProvider", <<p>>, "none", UndefV, c.loads, <<>>, c.dropped)
       ELSE /\ UNCHANGED <<provider, childrenCache>>
            /\ lastCall' = Call("setProvider", <<p>>, "none", UndefV, <<>>, <<>>, {})
    /\ UNCHANGED <<phase, lod, heightProvider, root, geometry, scale, parent, children,
                   mapView, parentNode, nodeClass, tile, created>>

\* Mutant of SetHeightProvider: the field is assigned and clear() is called
\* whether or not the provider differs from the current one.
SetHeightProviderAlwaysClears(h) ==
    /\ phase = "live"
    /\ LET c == ClearBody(children, childrenCache, mapView, provider)
       IN /\ heightProvider' = h
          /\ childrenCache' = c.cache
          /\ lastCall' = Call("setHeightProvider", <<h>>, "none", UndefV, c.loads, <<>>, c.dropped)
    /\ UNCHANGED <<phase, lod, provider, root, geometry, scale, parent, children,
                   mapView, parentNode, nodeClass, tile, created>>

\* view.setHeightProvider(h)
SetHeightProvider(h) ==
    /\ phase = "live"
    /\ IF h # heightProvider
       THEN LET c == ClearBody(children, childrenCache, mapView, provider)
            IN /\ heightProvider' = h
               /\ childrenCache' = c.cache
               /\ lastCall' = Call("setHeightProvider", <<h>>, "none", UndefV, c.loads, <<>>, c.dropped)
       ELSE /\ UNCHANGED <<heightProvider, childrenCache>>
            /\ lastCall' = Call("setHeightProvider", <<h>>, "none", UndefV, <<>>, <<>>, {})
    /\ UNCHANGED <<phase, lod, provider, root, geometry, scale, parent, children,
                   mapView, parentNode, nodeClass, tile, created>>

\* Mutant of Clear: the tree under the view is destroyed as well.
ClearDestroying ==
    /\ phase = "live"
    /\ LET c == ClearBody(children, childrenCache, mapView, provider)
       IN /\ childrenCache' = c.cache
          /\ lastCall' = Call("clear", <<>>, "none", ViewV, c.loads, <<>>, c.dropped)
    /\ children' = [n \in DOMAIN children |-> <<>>]
    /\ parent' = [n \in NodeIds |-> Null]
    /\ UNCHANGED <<phase, lod, provider, heightProvider, root, geometry, scale,
                   mapView, parentNode, nodeClass, tile, created>>

\* view.clear()
Clear ==
    /\ phase = "live"
    /\ LET c == ClearBody(children, childrenCache, mapView, provider)
       IN /\ childrenCache' = c.cache
          /\ lastCall' = Call("clear", <<>>, "none", ViewV, c.loads, <<>>, c.dropped)
    /\ UNCHANGED <<phase, lod, provider, heightProvider, root, geometry, scale, parent,
                   children, mapView, parentNode, nodeClass, tile, created>>

-----------------------------------------------------------------------------
(* LODControl: what one updateLOD pass may do to the tree of the view. *)

TreeState ==
    [parent |-> parent, children |-> children, childrenCache |-> childrenCache,
     mapView |-> mapView, parentNode |-> parentNode, nodeClass |-> nodeClass,
     tile |-> tile, created |-> created, loads |-> <<>>]

\* The nodes a ray can hit: the leaves of the tree under the view.
Hits(ch) == {n \in Range(Traverse(ch, View)) \ {View} : Len(ch[n]) = 0}

\* lod.updateLOD(view, camera, renderer, scene): the trees one pass can leave.
\* A pass leaves the tree alone, subdivides a node it hit, or simplifies the
\* parent node of a node it hit.
UpdateLOD(t, prov) ==
    {t}
    \cup {Subdivide(t, n, prov) : n \in {m \in Hits(t.children) : CanSubdivide(t, m)}}
    \cup {Simplify(t, t.parentNode[n]) : n \in {m \in Hits(t.children) : t.parentNode[m] # Null}}

\* How an updateLOD pass may end: it returns, or it raises an error.
LODOutcomes == {"none", "Error"}

\* What leaves onBeforeRender when updateLOD ends with e: the hook calls
\* updateLOD outside any try block, so an error it raises leaves the hook.
HookOutcome(e) == e

\* Mutant of LODArgs: the hook's arguments are passed on in the order received.
LODArgsSwapped(renderer, scene, camera) == <<ViewV, renderer, scene, camera>>

\* The arguments the hook passes to updateLOD.
LODArgs(renderer, scene, camera) == <<ViewV, camera, renderer, scene>>

\* view.onBeforeRender(renderer, scene, camera, geometry, material, group)
OnBeforeRender(renderer, scene, camera) ==
    /\ phase = "live"
    /\ lod = LODRaycastV
    /\ \E t \in UpdateLOD(TreeState, provider), e \in LODOutcomes :
          /\ parent' = t.parent
          /\ children' = t.children
          /\ childrenCache' = t.childrenCache
          /\ mapView' = t.mapView
          /\ parentNode' = t.parentNode
          /\ nodeClass' = t.nodeClass
          /\ tile' = t.tile
          /\ created' = t.created
          /\ lastCall' = [Call("onBeforeRender", <<renderer, scene, camera>>,
                               HookOutcome(e), UndefV, t.loads,
                               <<LODArgs(renderer, scene, camera)>>, {})
                             EXCEPT !.lodThrew = e]
    /\ UNCHANGED <<phase, lod, provider, heightProvider, root, geometry, scale>>

Next ==
    \/ \E r \in RootArgs \cup {UndefV}, p \in Providers \cup {UndefV},
          h \in Providers \cup {NullV, UndefV} : Construct(r, p, h)
    \/ \E r \in RootArgs : SetRoot(r)
    \/ \E p \in Providers \cup {OSMProviderV} : SetProvider(p)
    \/ \E h \in Providers \cup {NullV} : SetHeightProvider(h)
    \/ Clear
    \/ \E camera \in Cameras : OnBeforeRender(RendererV, SceneV, camera)

Spec == Init /\ [][Next]_vars

-----------------------------------------------------------------------------
(* Properties.  lastCall describes the call that led to the current state, so *)
(* in a step lastCall' describes the call the step makes.                     *)

\* The objects reachable from those of S along the children arrays of ch.
RECURSIVE Reachable(_, _)
Reachable(ch, S) ==
    LET T == S \cup UNION {Range(ch[x]) : x \in S}
    IN IF T = S THEN S ELSE Reachable(ch, T)

\* The nodes attached under the view, at any depth.
Resident == Reachable(children, {View}) \ {View}

\* How many loadTexture calls the sequence of requests holds for node n.
LoadCount(loads, n) == Cardinality({i \in DOMAIN loads : loads[i][1] = n})

IsSetRootOfRegisteredMode(c) ==
    c.op = "setRoot" /\ c.args[1].tag = "number" /\ c.args[1].v \in DOMAIN mapModes

IsSetRootOfUnregisteredNumber(c) ==
    c.op = "setRoot" /\ c.args[1].tag = "number" /\ c.args[1].v \notin DOMAIN mapModes

\* C1: setRoot(modeId) with a registered mode id completes without raising,
\* detaches the prior root and leaves view.root a new node of the class
\* registered for the mode, attached as the child of the view.
C1_SetRootModeBuildsVariant ==
    [][IsSetRootOfRegisteredMode(lastCall') =>
          /\ lastCall'.threw = "none"
          /\ IsNode(root')
          /\ root' # root
          /\ nodeClass'[root'.v] = mapModes[lastCall'.args[1].v]
          /\ children'[View] = <<root'.v>>
          /\ parent'[root'.v] = View
          /\ (IsNode(root) => parent'[root.v] # View)]_vars

IsProviderSwap(c, prov, hprov) ==
    \/ c.op = "setProvider" /\ c.args[1] # prov
    \/ c.op = "setHeightProvider" /\ c.args[1] # hprov

C3_ReloadObservesNewProvider ==
    [][lastCall'.op = "setProvider" /\ lastCall'.args[1] # provider =>
          /\ provider' = lastCall'.args[1]
          /\ \A i \in DOMAIN lastCall'.loads :
                /\ lastCall'.loads[i][2] = lastCall'.args[1]
                /\ lastCall'.loads[i][2] # provider]_vars

C3_Witness ==
    /\ lastCall.op = "setProvider"
    /\ lastCall.args[1] = OSMProviderV
    /\ Len(lastCall.loads) > 1
    /\ lastCall.loads[1] = <<root.v, OSMProviderV>>

\* C4: clear() leaves the scene graph as it was (the nodes under the view and
\* every parent and children relation), leaves root, provider, heightProvider
\* and lod unchanged, and returns the view.
C4_ClearKeepsTreeShape ==
    [][lastCall'.op = "clear" =>
          /\ Resident' = Resident
          /\ parent' = parent
          /\ children' = children
          /\ root' = root
          /\ provider' = provider
          /\ heightProvider' = heightProvider
          /\ lod' = lod
          /\ lastCall'.ret = ViewV]_vars

C4_Witness ==
    /\ lastCall.op = "clear"
    /\ Cardinality(Resident) = 1 + QuadChildren
    /\ \E n \in Resident : parent[n] # View

\* C5: clear() reaches every node resident under the view at the time of the
\* call, at any depth: it leaves the node's childrenCache null and calls its
\* loadTexture exactly once.
C5_ClearReachesEveryResident ==
    [][lastCall'.op = "clear" =>
          /\ \A n \in Resident :
                /\ childrenCache'[n].isNull
                /\ LoadCount(lastCall'.loads, n) = 1
          /\ Len(lastCall'.loads) = Cardinality(Resident)
          /\ lastCall'.dropped = {n \in Resident : ~childrenCache[n].isNull}]_vars

C5_Witness ==
    /\ lastCall.op = "clear"
    /\ lastCall.dropped # {}
    /\ \E n \in Resident : parent[n] # View /\ LoadCount(lastCall.loads, n) = 1

\* C6: setRoot(n) with a number that is no key of mapModes raises an error and
\* leaves root, the scene graph, geometry and scale as they were.
C6_UnregisteredModeRaisesAndKeepsView ==
    [][IsSetRootOfUnregisteredNumber(lastCall') =>
          /\ lastCall'.threw = "Error"
          /\ root' = root
          /\ parent' = parent
          /\ children' = children
          /\ mapView' = mapView
          /\ geometry' = geometry
          /\ scale' = scale]_vars

C6_Witness ==
    /\ IsSetRootOfUnregisteredNumber(lastCall)
    /\ lastCall.threw = "Error"
    /\ IsNode(root)
    /\ children[View] = <<root.v>>

\* C7: new MapView() with the root omitted succeeds with a planar root node
\* attached to the view; an omitted provider becomes an OpenStreetMapsProvider
\* and an omitted height provider becomes null.
C7_OmittedRootDefaultsToPlanar ==
    lastCall.op = "constructor" /\ lastCall.args[1] = UndefV =>
        /\ lastCall.threw = "none"
        /\ phase = "live"
        /\ IsNode(root)
        /\ nodeClass[root.v] = mapModes[PLANAR]
        /\ children[View] = <<root.v>>
        /\ (lastCall.args[2] = UndefV => provider = OSMProviderV)
        /\ (lastCall.args[3] = UndefV => heightProvider = NullV)

\* C8: each onBeforeRender(renderer, scene, camera, ...) calls lod.updateLOD
\* exactly once, with the view and that frame's camera, renderer and scene; the
\* tree it leaves is one that updateLOD leaves, and root, the providers, lod,
\* geometry and scale are not changed.
C8_HookDelegatesToLODOnce ==
    [][lastCall'.op = "onBeforeRender" =>
          /\ lastCall'.lod = << <<ViewV, lastCall'.args[3], lastCall'.args[1],
                                  lastCall'.args[2]>> >>
          /\ root' = root
          /\ provider' = provider
          /\ heightProvider' = heightProvider
          /\ lod' = lod
          /\ geometry' = geometry
          /\ scale' = scale
          /\ children'[View] = children[View]
          /\ \E t \in UpdateLOD(TreeState, provider) :
                /\ children' = t.children
                /\ parent' = t.parent
                /\ childrenCache' = t.childrenCache]_vars

C8_Witness ==
    /\ lastCall.op = "onBeforeRender"
    /\ Len(lastCall.lod) = 1
    /\ lastCall.args[3] \in Cameras
    /\ Len(lastCall.loads) = QuadChildren

C10_ExactlyOneAttachedRoot ==
    phase = "live" /\ IsNode(root) =>
        /\ children[View] = <<root.v>>
        /\ parent[root.v] = View
        /\ mapView[root.v] = View
        /\ \A n \in created \ {root.v} :
              parent[n] # View /\ n \notin Range(children[View])

C10_Witness ==
    /\ lastCall.op = "setRoot"
    /\ IsNode(lastCall.args[1])
    /\ root = lastCall.args[1]
    /\ \E n \in UserNodes : n # root.v /\ mapView[n] = View /\ parent[n] = Null

\* C11: the root that setRoot constructs from a registered mode id is a tree
\* root: a node with no parent node, location MapNode.ROOT, tile (level 0,
\* x 0, y 0), bound to this view.
C11_ModeRootIsTreeRoot ==
    IsSetRootOfRegisteredMode(lastCall) =>
        /\ IsNode(root)
        /\ parentNode[root.v] = Null
        /\ tile[root.v] = RootTile
        /\ mapView[root.v] = View

\* C12: an error that lod.updateLOD raises during onBeforeRender does not
\* leave onBeforeRender.
C12_LODFailureStaysInHook ==
    lastCall.op = "onBeforeRender" /\ lastCall.lodThrew # "none" =>
        lastCall.threw = "none"

IsSameProviderCall(c, prov, hprov) ==
    \/ c.op = "setProvider" /\ c.args[1] = prov
    \/ c.op = "setHeightProvider" /\ c.args[1] = hprov

\* C13: setProvider(p) with p the current provider and setHeightProvider(h)
\* with h the current height provider change nothing: no childrenCache is
\* cleared, no loadTexture is called, and the providers, the root and the
\* tree stay as they were.
C13_SameProviderIsNoOp ==
    [][IsSameProviderCall(lastCall', provider, heightProvider) =>
          /\ lastCall'.loads = <<>>
          /\ lastCall'.dropped = {}
          /\ lastCall'.threw = "none"
          /\ childrenCache' = childrenCache
          /\ provider' = provider
          /\ heightProvider' = heightProvider
          /\ root' = root
          /\ parent' = parent
          /\ children' = children
          /\ mapView' = mapView]_vars

C13_Witness ==
    /\ lastCall.op = "setHeightProvider"
    /\ lastCall.args[1] = heightProvider
    /\ IsProvider(heightProvider)
    /\ lastCall.loads = <<>>
    /\ \E n \in Resident : ~childrenCache[n].isNull

====
